---- MODULE Spec2Model ----
(***************************************************************************)
(* The ContextTimeout middleware of echo and the request it mutates.       *)
(*                                                                         *)
(* Two variants of the middleware are in the repository:                   *)
(*   "fixed"      middleware/context_timeout.go: the translation of a      *)
(*                deadline failure is written into ToMiddleware;           *)
(*   "translator" the variant whose config carries an ErrorHandler.        *)
(* One request is followed from the moment the middleware's handler is     *)
(* invoked until it has returned to the enclosing middleware.              *)
(***************************************************************************)
EXTENDS Integers, Sequences, FiniteSets, TLC

\* ------------------------------------------------------------------ bounds
MaxTimeout == 2     \* largest configured Timeout, in clock ticks
MaxTime == 3        \* the clock stops advancing here
MaxParams == 2      \* largest maxParam of a server
MaxRequests == 2    \* number of times a pooled Context is reset

\* ------------------------------------------------------------------ errors
\* An error value is its chain: Head is the error itself, Tail is what
\* Unwrap returns. The nil error is the empty chain.
NilErr == << >>
DeadlineExceeded == <<"context.DeadlineExceeded">>
Canceled == <<"context.Canceled">>
ErrServiceUnavailable == <<"echo.ErrServiceUnavailable">>
WrappedDeadline == <<"wrapped">> \o DeadlineExceeded
AppError == <<"app">>
CustomError == <<"custom">>

\* The failures a downstream handler chain returns.
HandlerErrors == {NilErr, DeadlineExceeded, Canceled, WrappedDeadline, AppError}

\* errors.Is(err, target): target is err or is in err's Unwrap chain.
RECURSIVE ErrorsIs(_, _)
ErrorsIs(err, target) ==
    IF err = NilErr THEN FALSE
    ELSE err = target \/ ErrorsIs(Tail(err), target)

\* ---------------------------------------------------------------- skippers
NilSkipper == "nil"
DefaultSkipper == "DefaultSkipper"
Skippers == {NilSkipper, DefaultSkipper, "AlwaysSkip", "SkipHealth"}
Paths == {"/", "/health"}

\* DefaultSkipper(c): the default skipper skips nothing.
DefaultSkipperResult == FALSE

\* Skipper(c) for a non-nil skipper.
CallSkipper(skipper, p) ==
    CASE skipper = "AlwaysSkip" -> TRUE
      [] skipper = "SkipHealth" -> p = "/health"
      [] skipper = DefaultSkipper -> DefaultSkipperResult
      [] OTHER -> FALSE

\* The skipper of DefaultTimeoutConfig, which the fixed variant falls back to.
DefaultTimeoutConfigSkipper == DefaultSkipper

\* ---------------------------------------------------------- error handlers
NoField == "no-field"       \* the fixed variant's config has no ErrorHandler
NilHandler == "nil"
DefaultHandler == "DefaultContextTimeoutErrorHandler"
ErrorHandlers == {NilHandler, DefaultHandler, "Identity", "Constant", "Swallow"}

\* DefaultContextTimeoutErrorHandler(err, c)
DefaultContextTimeoutErrorHandler(err) ==
    IF err # NilErr
    THEN IF ErrorsIs(err, DeadlineExceeded) THEN ErrServiceUnavailable ELSE err
    ELSE NilErr

\* config.ErrorHandler(err, c) for a configured (non-nil) handler.
CallErrorHandler(handler, err) ==
    CASE handler = DefaultHandler -> DefaultContextTimeoutErrorHandler(err)
      [] handler = "Identity" -> err
      [] handler = "Constant" -> CustomError
      [] handler = "Swallow" -> NilErr

\* ------------------------------------------------------------------ config
Variants == {"fixed", "translator"}
Timeouts == (0 - 1)..MaxTimeout

ContextTimeoutConfig(v) ==
    [Skipper : Skippers, Timeout : Timeouts,
     ErrorHandler : IF v = "fixed" THEN {NoField} ELSE ErrorHandlers]

\* DefaultContextTimeoutConfig, the config ContextTimeout() of the fixed variant uses.
DefaultContextTimeoutConfig ==
    [Skipper |-> DefaultSkipper, Timeout |-> 0, ErrorHandler |-> NoField]

\* ContextTimeout(timeout) of the translator variant.
ContextTimeout(timeout) ==
    [Skipper |-> DefaultSkipper, Timeout |-> timeout, ErrorHandler |-> DefaultHandler]

\* ToMiddleware without the fallback for a nil Skipper.
ToMiddlewareNoFallback(v, cfg) == cfg

\* The config the returned closure captures.
ToMiddleware(v, cfg) ==
    IF v = "fixed" /\ cfg.Skipper = NilSkipper
    THEN [cfg EXCEPT !.Skipper = DefaultTimeoutConfigSkipper]
    ELSE cfg

\* The skipper's answer is dropped: nothing is ever skipped.
SkipperOutcomeIgnored(v, cfg, p) ==
    IF v = "fixed" /\ cfg.Skipper = NilSkipper THEN "panic" ELSE "run"

\* ------------------------------------------------------- the skip guard
\* How the evaluation of the skipper in the closure's guard ends: "skip",
\* "run", or "panic" when a nil function value is called.
SkipperOutcome(v, cfg, p) ==
    IF v = "fixed"
    THEN IF cfg.Skipper = NilSkipper THEN "panic"
         ELSE IF CallSkipper(cfg.Skipper, p) THEN "skip" ELSE "run"
    ELSE IF cfg.Skipper # NilSkipper /\ CallSkipper(cfg.Skipper, p)
         THEN "skip" ELSE "run"

\* The guard without its Timeout == 0 disjunct.
PassThroughSkipperOnly(v, cfg, p) ==
    SkipperOutcome(v, cfg, p) = "skip"

\* The guard of the closure: Skipper(c) || Timeout == 0.
PassThrough(v, cfg, p) ==
    SkipperOutcome(v, cfg, p) = "skip" \/ cfg.Timeout = 0

\* ------------------------------------------------- cancellation contexts
\* context.WithTimeout(parent, timeout) at time t: Err() and deadline of the
\* child. A parent that is already done ends the child with the parent's
\* error; a deadline that is not in the future ends it at once.
WithTimeout(parentErr, t, timeout) ==
    [err |-> IF parentErr # NilErr THEN parentErr
             ELSE IF timeout <= 0 THEN DeadlineExceeded ELSE NilErr,
     deadline |-> t + timeout]

\* cancel(): the first cause of the child's end stays its Err().
Cancel(err) == IF err = NilErr THEN Canceled ELSE err

\* cancel called before each return statement instead of deferred.
CancelBeforeReturn(exit) == exit = "return"

\* The cancel function is dropped and never called.
NeverCancelled(exit) == FALSE

\* The deferred cancel runs on every way out of the closure.
DeferredCancel(exit) == exit \in {"return", "panic"}

\* The derived context hangs under no parent (context.Background()).
ParentBackground(req) == "background"

\* The parent handed to WithTimeout: c.Request().Context().
ParentContext(req) == req.ctx

\* The copy made by WithContext is never stored in the Execution Context.
SetRequestDropped(req, ctx) == req

\* c.SetRequest(c.Request().WithContext(ctx)): the Execution Context now
\* holds a request that carries ctx.
SetRequest(req, ctx) == [req EXCEPT !.ctx = ctx]

\* The closure does not wait for next(c) once the deadline has passed.
ResumesAtDeadline(p, expired) == p = "returned" \/ (p = "next" /\ expired)

\* next(c) is an ordinary call: the closure goes on when it has returned.
Resumes(p, expired) == p = "returned"

\* The downstream failure is returned as it is.
OutcomeForwarded(v, cfg, err, c) == err

\* Every downstream failure becomes ErrServiceUnavailable.
OutcomeAnyFailureUnavailable(v, cfg, err, c) ==
    IF err # NilErr THEN ErrServiceUnavailable ELSE NilErr

\* A success is translated too when the request's context has expired.
OutcomePostCheck(v, cfg, err, c) ==
    IF err # NilErr
    THEN IF ErrorsIs(err, DeadlineExceeded) THEN ErrServiceUnavailable ELSE err
    ELSE IF c.ctxErr = DeadlineExceeded THEN ErrServiceUnavailable ELSE NilErr

\* The translator is handed the downstream outcome even when it is a success.
OutcomeAlwaysTranslated(v, cfg, err, c) ==
    IF v = "fixed"
    THEN IF ErrorsIs(err, DeadlineExceeded) THEN ErrServiceUnavailable ELSE err
    ELSE IF cfg.ErrorHandler # NilHandler
         THEN CallErrorHandler(cfg.ErrorHandler, err)
         ELSE DefaultContextTimeoutErrorHandler(err)

\* The failure is compared with the sentinel by == instead of errors.Is.
OutcomeIdentityOnly(v, cfg, err, c) ==
    IF err = DeadlineExceeded THEN ErrServiceUnavailable ELSE err

\* A deadline failure is translated only while the headers are uncommitted.
OutcomeUnlessCommitted(v, cfg, err, c) ==
    IF err # NilErr
    THEN IF ErrorsIs(err, DeadlineExceeded) /\ ~c.committed
         THEN ErrServiceUnavailable ELSE err
    ELSE NilErr

\* --------------------------------------------------------- the outcome
\* What the closure returns once next(c) has returned err, on the
\* substitution path. c is the Execution Context as the closure sees it.
Outcome(v, cfg, err, c) ==
    IF err # NilErr
    THEN IF v = "fixed"
         THEN IF ErrorsIs(err, DeadlineExceeded) THEN ErrServiceUnavailable
              ELSE err
         ELSE IF cfg.ErrorHandler # NilHandler
              THEN CallErrorHandler(cfg.ErrorHandler, err)
              ELSE DefaultContextTimeoutErrorHandler(err)
    ELSE NilErr

\* ------------------------------------------------------------- Context
\* The server a Context belongs to; only its maxParam matters here.
Echos == [maxParam : 0..MaxParams]

ParamNames == {"id", "name"}      \* names the router stores
ParamValues == {"a", "b"}         \* values the router stores
LookupNames == ParamNames \cup {"", "zip"}
Keys == {"k1", "k2"}              \* keys of the store
StoreValues == {"v1", "v2"}
NilValue == "nil"                 \* the nil interface value
Uint8 == 256                      \* number of values of a uint8
Indexes == 0..(MaxParams + 1) \cup {Uint8 - 1}

\* make([]string, n): n empty strings.
MakeStrings(n) == [i \in 1..n |-> ""]

\* NewContext that leaves pvalues without its maxParam slots.
NewContextValuesUnsized(req, e) ==
    [request |-> req, echo |-> e,
     pnames |-> MakeStrings(e.maxParam), pvalues |-> MakeStrings(0),
     store |-> << >>]

\* NewContext(req, res, e)
NewContext(req, e) ==
    [request |-> req, echo |-> e,
     pnames |-> MakeStrings(e.maxParam), pvalues |-> MakeStrings(e.maxParam),
     store |-> << >>]

\* The result of a call on the Context: its value, or a run-time panic.
Value(v) == [panic |-> FALSE, value |-> v]
Panic == [panic |-> TRUE, value |-> ""]

\* values[i] of Go, i counted from 0.
Index(values, i) ==
    IF i >= 0 /\ i < Len(values) THEN Value(values[i + 1]) ELSE Panic

\* Context.P(i)
P(names, values, i) ==
    LET l == Len(names) % Uint8
    IN IF i <= l THEN Index(values, i) ELSE Value("")

\* The loop of Param from position i on, without its break.
RECURSIVE ParamScanLast(_, _, _, _, _)
ParamScanLast(names, values, name, i, found) ==
    IF i >= Len(names) THEN found
    ELSE IF names[i + 1] = name /\ i <= Len(names)
         THEN IF Index(values, i).panic THEN Panic
              ELSE ParamScanLast(names, values, name, i + 1, Index(values, i))
         ELSE ParamScanLast(names, values, name, i + 1, found)

\* The loop of Param from position i on: the first name that matches ends it.
RECURSIVE ParamScan(_, _, _, _)
ParamScan(names, values, name, i) ==
    IF i >= Len(names) THEN Value("")
    ELSE IF names[i + 1] = name /\ i <= Len(names)
         THEN Index(values, i)
         ELSE ParamScan(names, values, name, i + 1)

\* Param that goes on after a match and so returns the last one.
ParamLastMatch(names, values, name) ==
    ParamScanLast(names, values, name, 0, Value(""))

\* Context.Param(name)
Param(names, values, name) == ParamScan(names, values, name, 0)

\* Context.Get(key): a missing key gives the nil value.
Get(st, key) == IF key \in DOMAIN st THEN st[key] ELSE NilValue

\* Context.Set(key, val)
Set(st, key, val) ==
    [k \in DOMAIN st \cup {key} |-> IF k = key THEN val ELSE st[k]]

\* response.reset(w): the response starts uncommitted again.
ResponseReset == FALSE

NoCall == [op |-> "none", arg |-> "", panic |-> FALSE, value |-> ""]
Call(op, arg, res) ==
    [op |-> op, arg |-> arg, panic |-> res.panic, value |-> res.value]

VARIABLES
    variant,     \* which ToMiddleware built the middleware
    given,       \* the config handed to ToMiddleware
    config,      \* the config captured by the middleware closure
    path,        \* the request's path, read by the skipper
    pc,          \* position of the middleware invocation
    bounded,     \* TRUE once the invocation took the substitution path
    request,     \* c.request: the cancellation context it carries
    ctxErr,      \* Err() of the original and of the derived context
    created,     \* context.WithTimeout has been called
    parent,      \* the context the derived context was derived from
    released,    \* the derived context's cancel function has been called
    deadline,    \* the derived context's deadline
    now,         \* the clock
    committed,   \* the response has committed its headers
    calls,       \* number of invocations of next
    handlerErr,  \* what next(c) returned
    errAtReturn, \* Err() of the request's context when next(c) returned
    panicked,    \* a panic is propagating out of the middleware
    outcome,     \* what the middleware returned
    owner,       \* c.echo
    sizedFor,    \* maxParam of the server when the Context was made
    pnames,      \* c.pnames
    pvalues,     \* c.pvalues
    store,       \* c.store
    lastCall     \* the call on the Context just made, with its result

vars == <<variant, given, config, path, pc, bounded, request, ctxErr, created,
          parent, released, deadline, now, committed, calls, handlerErr,
          errAtReturn, panicked, outcome, owner, sizedFor, pnames, pvalues,
          store, lastCall>>

\* The fields of the Context other than its request and response.
ctxVars == <<owner, sizedFor, pnames, pvalues, store, lastCall>>

\* The state of the middleware invocation.
mwVars == <<variant, given, config, path, pc, bounded, ctxErr, created, parent,
            released, deadline, now, calls, handlerErr, errAtReturn, panicked,
            outcome>>

\* Err() of a context; the background context never ends.
ErrOf(id) == IF id = "background" THEN NilErr ELSE ctxErr[id]

\* The Context made by NewContext for server e.
ContextInit(e) ==
    LET c == NewContext([id |-> 0, ctx |-> "orig"], e)
    IN /\ request = c.request
       /\ owner = c.echo
       /\ sizedFor = e.maxParam
       /\ pnames = c.pnames
       /\ pvalues = c.pvalues
       /\ store = c.store
       /\ committed = FALSE
       /\ lastCall = NoCall

Init ==
    /\ variant \in Variants
    /\ given \in ContextTimeoutConfig(variant)
    /\ config = ToMiddleware(variant, given)
    /\ path \in Paths
    /\ pc = "start"
    /\ bounded = FALSE
    /\ ContextInit([maxParam |-> MaxParams])
    /\ ctxErr = [orig |-> NilErr, derived |-> NilErr]
    /\ created = FALSE
    /\ parent = "none"
    /\ released = FALSE
    /\ deadline = 0
    /\ now = 0
    /\ calls = 0
    /\ handlerErr = NilErr
    /\ errAtReturn = NilErr
    /\ panicked = FALSE
    /\ outcome = NilErr

\* The Execution Context as the closure and the error handler see it.
ExecutionContext ==
    [request |-> request, ctxErr |-> ctxErr[request.ctx], committed |-> committed]

\* ------------------------------------------------------------- actions
\* The closure up to its call of next(c): the guard and, on the substitution
\* path, WithTimeout, the deferred cancel's registration and SetRequest.
Enter ==
    /\ UNCHANGED ctxVars
    /\ pc = "start"
    /\ IF SkipperOutcome(variant, config, path) = "panic"
       THEN /\ panicked' = TRUE
            /\ pc' = "done"
            /\ UNCHANGED <<bounded, request, ctxErr, created, parent, deadline,
                           calls>>
       ELSE IF PassThrough(variant, config, path)
       THEN /\ pc' = "next"
            /\ calls' = calls + 1
            /\ UNCHANGED <<bounded, request, ctxErr, created, parent, deadline,
                           panicked>>
       ELSE LET timeoutContext ==
                    WithTimeout(ErrOf(ParentContext(request)), now,
                                config.Timeout)
            IN /\ created' = TRUE
               /\ parent' = ParentContext(request)
               /\ deadline' = timeoutContext.deadline
               /\ ctxErr' = [ctxErr EXCEPT !.derived = timeoutContext.err]
               /\ request' = SetRequest(request, "derived")
               /\ bounded' = TRUE
               /\ pc' = "next"
               /\ calls' = calls + 1
               /\ UNCHANGED panicked
    /\ UNCHANGED <<variant, given, config, path, released, now, committed,
                   handlerErr, errAtReturn, outcome>>

\* The downstream handler chain returns err.
HandlerReturn(err) ==
    /\ UNCHANGED ctxVars
    /\ pc = "next"
    /\ handlerErr' = err
    /\ errAtReturn' = ctxErr[request.ctx]
    /\ pc' = "returned"
    /\ UNCHANGED <<variant, given, config, path, bounded, request, ctxErr,
                   created, parent, released, deadline, now, committed, calls,
                   panicked, outcome>>

\* The downstream handler chain panics.
HandlerPanic ==
    /\ UNCHANGED ctxVars
    /\ pc = "next"
    /\ panicked' = TRUE
    /\ errAtReturn' = ctxErr[request.ctx]
    /\ pc' = "returned"
    /\ UNCHANGED <<variant, given, config, path, bounded, request, ctxErr,
                   created, parent, released, deadline, now, committed, calls,
                   handlerErr, outcome>>

\* The downstream handler chain writes the response's headers.
Commit ==
    /\ UNCHANGED ctxVars
    /\ pc = "next"
    /\ ~committed
    /\ committed' = TRUE
    /\ UNCHANGED <<variant, given, config, path, pc, bounded, request, ctxErr,
                   created, parent, released, deadline, now, calls, handlerErr,
                   errAtReturn, panicked, outcome>>

\* The closure from the return of next(c) to its own return, the deferred
\* cancel included.
Return ==
    /\ UNCHANGED ctxVars
    /\ Resumes(pc, ctxErr.derived = DeadlineExceeded)
    /\ pc' = "done"
    /\ outcome' = IF panicked THEN outcome
                  ELSE IF bounded
                  THEN Outcome(variant, config, handlerErr, ExecutionContext)
                  ELSE handlerErr
    /\ IF bounded /\ DeferredCancel(IF panicked THEN "panic" ELSE "return")
       THEN /\ released' = TRUE
            /\ ctxErr' = [ctxErr EXCEPT !.derived = Cancel(@)]
       ELSE UNCHANGED <<released, ctxErr>>
    /\ UNCHANGED <<variant, given, config, path, bounded, request, created,
                   parent, deadline, now, committed, calls, handlerErr, errAtReturn,
                   panicked>>

\* The clock advances; a live derived context whose deadline is reached ends
\* with DeadlineExceeded.
Tick ==
    /\ UNCHANGED ctxVars
    /\ pc # "done"
    /\ now < MaxTime
    /\ now' = now + 1
    /\ ctxErr' = IF created /\ ctxErr.derived = NilErr /\ now + 1 >= deadline
                 THEN [ctxErr EXCEPT !.derived = DeadlineExceeded]
                 ELSE ctxErr
    /\ UNCHANGED <<variant, given, config, path, pc, bounded, request, created,
                   parent, released, deadline, committed, calls, handlerErr,
                   errAtReturn, panicked, outcome>>

\* The request's original context ends (the client went away, or a deadline
\* set further up passed); a live child ends with the same error.
ParentDone(reason) ==
    /\ UNCHANGED ctxVars
    /\ pc # "done"
    /\ ctxErr.orig = NilErr
    /\ ctxErr' = [orig |-> reason,
                  derived |-> IF created /\ parent = "orig"
                                    /\ ctxErr.derived = NilErr
                              THEN reason ELSE ctxErr.derived]
    /\ UNCHANGED <<variant, given, config, path, pc, bounded, request, created,
                   parent, released, deadline, now, committed, calls, handlerErr,
                   errAtReturn, panicked, outcome>>

Next ==
    \/ Enter
    \/ \E err \in HandlerErrors : HandlerReturn(err)
    \/ HandlerPanic
    \/ Commit
    \/ Return
    \/ Tick
    \/ \E reason \in {Canceled, DeadlineExceeded} : ParentDone(reason)

Spec == Init /\ [][Next]_vars

\* ------------------------------------------------- the pooled Context
\* A Context made for some server, before any middleware runs on it.
CtxInit ==
    /\ variant = "fixed"
    /\ given = DefaultContextTimeoutConfig
    /\ config = ToMiddleware(variant, given)
    /\ path = "/"
    /\ pc = "start"
    /\ bounded = FALSE
    /\ \E e \in Echos : ContextInit(e)
    /\ ctxErr = [orig |-> NilErr, derived |-> NilErr]
    /\ created = FALSE
    /\ parent = "none"
    /\ released = FALSE
    /\ deadline = 0
    /\ now = 0
    /\ calls = 0
    /\ handlerErr = NilErr
    /\ errAtReturn = NilErr
    /\ panicked = FALSE
    /\ outcome = NilErr

\* The router stores a parameter's name and value at position i.
SetParam(i, name, value) ==
    /\ i \in 1..Len(pnames)
    /\ i \in 1..Len(pvalues)
    /\ pnames' = [pnames EXCEPT ![i] = name]
    /\ pvalues' = [pvalues EXCEPT ![i] = value]
    /\ lastCall' = NoCall
    /\ UNCHANGED <<mwVars, request, committed, owner, sizedFor, store>>

\* c.P(i)
CallP(i) ==
    /\ lastCall' = Call("P", i, P(pnames, pvalues, i))
    /\ UNCHANGED <<mwVars, request, committed, owner, sizedFor, pnames,
                   pvalues, store>>

\* c.Param(name)
CallParam(name) ==
    /\ lastCall' = Call("Param", name, Param(pnames, pvalues, name))
    /\ UNCHANGED <<mwVars, request, committed, owner, sizedFor, pnames,
                   pvalues, store>>

\* c.Get(key)
CallGet(key) ==
    /\ lastCall' = Call("Get", key, Value(Get(store, key)))
    /\ UNCHANGED <<mwVars, request, committed, owner, sizedFor, pnames,
                   pvalues, store>>

\* c.Set(key, val)
CallSet(key, val) ==
    /\ store' = Set(store, key, val)
    /\ lastCall' = NoCall
    /\ UNCHANGED <<mwVars, request, committed, owner, sizedFor, pnames,
                   pvalues>>

\* c.reset(w, r, e): the Context is taken from the pool for the next request.
Reset(e) ==
    /\ request.id < MaxRequests
    /\ request' = [id |-> request.id + 1, ctx |-> "orig"]
    /\ committed' = ResponseReset
    /\ owner' = e
    /\ lastCall' = Call("reset", "", Value(""))
    /\ UNCHANGED <<mwVars, sizedFor, pnames, pvalues, store>>

CtxNext ==
    \/ \E i \in 1..MaxParams, name \in ParamNames, value \in ParamValues :
            SetParam(i, name, value)
    \/ \E i \in Indexes : CallP(i)
    \/ \E name \in LookupNames : CallParam(name)
    \/ \E key \in Keys : CallGet(key)
    \/ \E key \in Keys, val \in StoreValues : CallSet(key, val)
    \/ \E e \in Echos : Reset(e)

CtxSpec == CtxInit /\ [][CtxNext]_vars

TypeOK ==
    /\ variant \in Variants
    /\ given \in ContextTimeoutConfig(variant)
    /\ config \in ContextTimeoutConfig(variant)
    /\ path \in Paths
    /\ pc \in {"start", "next", "returned", "done"}
    /\ bounded \in BOOLEAN
    /\ request \in [id : 0..MaxRequests, ctx : {"orig", "derived"}]
    /\ ctxErr \in [orig : {NilErr, Canceled, DeadlineExceeded},
                   derived : {NilErr, Canceled, DeadlineExceeded}]
    /\ created \in BOOLEAN
    /\ parent \in {"none", "orig", "background"}
    /\ released \in BOOLEAN
    /\ now \in 0..MaxTime
    /\ committed \in BOOLEAN
    /\ calls \in 0..1
    /\ handlerErr \in HandlerErrors
    /\ errAtReturn \in {NilErr, Canceled, DeadlineExceeded}
    /\ panicked \in BOOLEAN
    /\ outcome \in HandlerErrors \cup {ErrServiceUnavailable, CustomError}
    /\ owner \in Echos
    /\ sizedFor \in 0..MaxParams
    /\ pnames \in Seq(ParamNames \cup {""})
    /\ pvalues \in Seq(ParamValues \cup {""})
    /\ DOMAIN store \subseteq Keys
    /\ lastCall.op \in {"none", "P", "Param", "Get", "reset"}

\* ------------------------------------------------------------ properties
\* The middleware's own translation policy is in force: the fixed variant, or
\* the translator variant with no ErrorHandler or the default one.
FixedPolicy == config.ErrorHandler \in {NoField, NilHandler, DefaultHandler}

\* The invocation has returned normally to the enclosing middleware.
Returned == pc = "done" /\ ~panicked

\* C1: with a configured Timeout of 0 the middleware is a no-op: the request
\* keeps its original cancellation context before, during and after the
\* downstream call, no derived context is ever created, next is called once,
\* and the value returned is exactly what the downstream handler returned.
C1_ZeroTimeoutIsNoOp ==
    given.Timeout = 0 =>
        /\ request.ctx = "orig"
        /\ ~created /\ ~bounded /\ ~released
        /\ pc # "start" => calls = 1
        /\ Returned => outcome = handlerErr

C1_Witness ==
    /\ given = DefaultContextTimeoutConfig
    /\ pc = "done"
    /\ now > 0
    /\ handlerErr = DeadlineExceeded
    /\ outcome = DeadlineExceeded

\* C2: when the skip predicate answers true for the request, whatever the
\* Timeout, the request keeps its original cancellation context, no derived
\* context is created, and the downstream outcome is returned unchanged.
C2_SkippedIsNoOp ==
    (given.Skipper # NilSkipper /\ CallSkipper(given.Skipper, path)) =>
        /\ request.ctx = "orig"
        /\ ~created /\ ~bounded /\ ~released
        /\ pc # "start" => calls = 1
        /\ Returned => outcome = handlerErr

C2_Witness ==
    /\ given.Skipper = "SkipHealth" /\ path = "/health"
    /\ given.Timeout = 1
    /\ now >= 2
    /\ pc = "done"
    /\ handlerErr = DeadlineExceeded
    /\ outcome = DeadlineExceeded

\* C3: on the substitution path, under the middleware's own translation
\* policy, a downstream handler that returns the DeadlineExceeded sentinel
\* makes the middleware return ErrServiceUnavailable, never the sentinel.
C3_DeadlineTranslated ==
    (Returned /\ bounded /\ FixedPolicy /\ handlerErr = DeadlineExceeded) =>
        /\ outcome = ErrServiceUnavailable
        /\ outcome # DeadlineExceeded

C3_Witness ==
    /\ Returned /\ bounded /\ FixedPolicy
    /\ given.Timeout = 1 /\ now = 1
    /\ errAtReturn = DeadlineExceeded
    /\ handlerErr = DeadlineExceeded
    /\ outcome = ErrServiceUnavailable

\* C4: on the substitution path, a downstream handler that returns success
\* while the derived context had already expired when it returned makes the
\* middleware return ErrServiceUnavailable.
C4_SuccessAfterExpiryTranslated ==
    (Returned /\ bounded /\ given.Timeout > 0 /\ handlerErr = NilErr
        /\ errAtReturn = DeadlineExceeded) =>
        outcome = ErrServiceUnavailable

C6_ReleasedExactlyOnReturn ==
    /\ released => created /\ pc = "done"
    /\ (created /\ pc = "done") => released
    /\ (created /\ pc \in {"next", "returned"}) => ~released

C6_Witness ==
    /\ pc = "done" /\ created /\ released
    /\ handlerErr = DeadlineExceeded
    /\ ctxErr.derived = DeadlineExceeded

C8_ReturnsAtTimeLimit ==
    (bounded /\ given.Timeout > 0 /\ now > deadline) =>
        /\ pc = "done"
        /\ outcome = ErrServiceUnavailable

C10_NilSkipperNeverSkips ==
    given.Skipper = NilSkipper =>
        /\ panicked => calls = 1
        /\ pc # "start" =>
              /\ calls = 1
              /\ bounded <=> given.Timeout # 0
              /\ bounded <=> request.ctx = "derived"

C10_Witness ==
    /\ given.Skipper = NilSkipper
    /\ variant = "fixed"
    /\ given.Timeout = 1
    /\ Returned /\ bounded /\ released

\* C14: on the substitution path the derived context is in the Execution
\* Context's request before next is invoked and all the while the downstream
\* chain runs: whoever reads the request's context there sees the derived
\* context, never the original one.
C14_DerivedVisibleDownstream ==
    (bounded /\ calls >= 1 /\ pc \in {"next", "returned"}) =>
        /\ created
        /\ request.ctx = "derived"

C14_Witness ==
    /\ bounded /\ pc = "next" /\ calls = 1
    /\ now > 0
    /\ request.ctx = "derived"
    /\ ctxErr.derived = NilErr

C16_ChildOfRequestContext ==
    /\ [](created =>
             /\ parent = "orig"
             /\ ctxErr.orig # NilErr => ctxErr.derived # NilErr)
    /\ [][(now' # now \/ pc' # pc) => ctxErr'.orig = ctxErr.orig]_vars

C16_Witness ==
    /\ created /\ pc = "next"
    /\ now < deadline
    /\ ctxErr.orig = Canceled
    /\ ctxErr.derived = Canceled

\* C18: in the translator variant the ErrorHandler is not applied to a
\* success; a configured ErrorHandler decides the outcome of every failure,
\* and without one the default handler does: ErrServiceUnavailable for a
\* deadline failure, the failure itself otherwise.
C18_TranslatorDecidesFailures ==
    (variant = "translator" /\ Returned /\ bounded) =>
        /\ handlerErr = NilErr => outcome = NilErr
        /\ (handlerErr # NilErr /\ config.ErrorHandler # NilHandler) =>
               outcome = CallErrorHandler(config.ErrorHandler, handlerErr)
        /\ (handlerErr # NilErr /\ config.ErrorHandler = NilHandler) =>
               outcome = IF handlerErr \in {DeadlineExceeded, WrappedDeadline}
                         THEN ErrServiceUnavailable ELSE handlerErr

C18_Witness ==
    /\ variant = "translator" /\ Returned /\ bounded
    /\ config.ErrorHandler = "Constant"
    /\ handlerErr = AppError
    /\ outcome = CustomError

\* C19: the closure never puts the original request back: after an
\* invocation on the substitution path has ended, the Execution Context's
\* request still carries the derived context, which is released and reports
\* an error, also while the original context is live.
C19_RequestNotRestored ==
    (pc = "done" /\ bounded) =>
        /\ request.ctx = "derived"
        /\ released
        /\ ctxErr[request.ctx] # NilErr

C19_Witness ==
    /\ Returned /\ bounded
    /\ handlerErr = NilErr /\ outcome = NilErr
    /\ ctxErr.orig = NilErr
    /\ request.ctx = "derived"
    /\ ctxErr.derived = Canceled

\* C20: under the middleware's own translation policy the failure's chain
\* alone decides: a failure that wraps DeadlineExceeded, and a deadline
\* failure returned while the derived context is still live, are translated
\* to ErrServiceUnavailable like the sentinel.
C20_ChainDecidesTranslation ==
    (Returned /\ bounded /\ FixedPolicy
        /\ handlerErr \in {DeadlineExceeded, WrappedDeadline}) =>
        outcome = ErrServiceUnavailable

C20_Witness ==
    /\ Returned /\ bounded /\ FixedPolicy
    /\ handlerErr = WrappedDeadline
    /\ errAtReturn = NilErr
    /\ ctxErr.orig = NilErr
    /\ outcome = ErrServiceUnavailable

\* C11: P(i) never fails: it gives the value stored at position i when i is
\* within the parameter count, and the empty string for every other index,
\* the index equal to the count included.
C11_PathParamByIndexNeverFails ==
    lastCall.op = "P" =>
        /\ ~lastCall.panic
        /\ lastCall.value = IF lastCall.arg < Len(pvalues)
                            THEN pvalues[lastCall.arg + 1] ELSE ""

\* C12: after reset the store is empty: Get gives the nil value for every
\* key, whatever was Set before the reset.
C12_ResetClearsStore ==
    lastCall.op = "reset" =>
        \A key \in Keys : Get(store, key) = NilValue

\* The positions of pnames that hold name, counted from 1.
MatchingPositions(name) == {i \in 1..Len(pnames) : pnames[i] = name}

\* C13: Param(name) does not fail and gives the value at the lowest position
\* whose name is name, or the empty string when no position has that name.
C13_ParamFirstMatch ==
    lastCall.op = "Param" =>
        /\ ~lastCall.panic
        /\ LET hits == MatchingPositions(lastCall.arg)
           IN IF hits = {} THEN lastCall.value = ""
              ELSE \E i \in hits :
                      /\ \A j \in hits : i <= j
                      /\ lastCall.value = pvalues[i]

C13_Witness ==
    /\ lastCall.op = "Param" /\ lastCall.arg = "id"
    /\ pnames = <<"id", "id">>
    /\ pvalues = <<"b", "a">>
    /\ lastCall.value = "b"

\* C17: pnames and pvalues always have the same length, the maxParam of the
\* server the Context was made for; reset rebinds the request and the owner
\* and leaves both arrays as they are.
C17_ParamArraysKeepSize ==
    /\ [](Len(pnames) = sizedFor /\ Len(pvalues) = sizedFor)
    /\ [][request'.id # request.id =>
             /\ pnames' = pnames /\ pvalues' = pvalues
             /\ request'.ctx = "orig"]_vars

C17_Witness ==
    /\ lastCall.op = "reset"
    /\ request.id = 2
    /\ sizedFor = 2 /\ owner.maxParam = 1
    /\ pnames = <<"id", "name">>
    /\ Len(pvalues) = 2

====
